---------------------------- MODULE Spec2Model ----------------------------
(***************************************************************************)
(* The code development workflow of src/multi_agent_workflow.py:           *)
(* CodeDevelopmentWorkflow.__init__, run, _extract_code_from_messages,     *)
(* _extract_review_from_messages, and the round-robin team and the         *)
(* termination conditions that run() drives.                               *)
(*                                                                         *)
(* Text is a sequence of one-character strings, so that a substring test   *)
(* and the regular expression of the extractor are computed character by   *)
(* character.                                                              *)
(***************************************************************************)
EXTENDS Integers, Sequences, FiniteSets, TLC

(***************************************************************************)
(* Bounds of the model.                                                    *)
(***************************************************************************)
\* The largest max_rounds a workflow is constructed with.
MaxRoundsBound == 5
\* The number of run() calls made on one workflow instance.
MaxRuns == 2

(***************************************************************************)
(* Text constants of the source.                                           *)
(***************************************************************************)
NL == <<"\n">>
\* the backtick character (a string literal of TLA+ cannot hold it)
BACKTICK == "BACKTICK"
FENCE == <<BACKTICK, BACKTICK, BACKTICK>>
PYTHON == <<"p", "y", "t", "h", "o", "n">>
\* TextMentionTermination("WORKFLOW_COMPLETE")
WORKFLOW_COMPLETE ==
    <<"W", "O", "R", "K", "F", "L", "O", "W", "_",
      "C", "O", "M", "P", "L", "E", "T", "E">>
\* the same letters in lower case, as a model may write them
workflow_complete ==
    <<"w", "o", "r", "k", "f", "l", "o", "w", "_",
      "c", "o", "m", "p", "l", "e", "t", "e">>
\* "No code found"
NoCodeFound ==
    <<"N", "o", " ", "c", "o", "d", "e", " ", "f", "o", "u", "n", "d">>
\* "No review found"
NoReviewFound ==
    <<"N", "o", " ", "r", "e", "v", "i", "e", "w", " ",
      "f", "o", "u", "n", "d">>

(***************************************************************************)
(* String helpers.                                                         *)
(***************************************************************************)
\* s[i:i+len(t)] == t, with i counted from 1
IsAt(s, i, t) ==
    /\ i >= 1
    /\ i + Len(t) - 1 <= Len(s)
    /\ SubSeq(s, i, i + Len(t) - 1) = t

\* Python's substring test, t in s
Contains(s, t) == \E i \in 1..(Len(s) + 1) : IsAt(s, i, t)

\* sep.join(parts)
RECURSIVE StrJoin(_, _)
StrJoin(sep, parts) ==
    IF parts = <<>> THEN <<>>
    ELSE IF Len(parts) = 1 THEN parts[1]
    ELSE parts[1] \o sep \o StrJoin(sep, Tail(parts))

(***************************************************************************)
(* re.findall with re.DOTALL of the code block pattern: three backticks,   *)
(* an optional "python", a newline, a lazy group of any characters, a      *)
(* newline, three backticks.  The group is what findall returns.           *)
(***************************************************************************)
\* The lazy group followed by the closing newline and fence: the first
\* position at or after b where NL FENCE starts; 0 when there is none.
CloserFrom(s, b) ==
    LET cands == {e \in b..Len(s) : IsAt(s, e, NL \o FENCE)}
    IN IF cands = {} THEN 0
       ELSE CHOOSE e \in cands : \A f \in cands : e <= f

\* An attempt to match the pattern with its first character at position i:
\* [ok, body, next], next being the position after the match.
MatchAt(s, i) ==
    LET none == [ok |-> FALSE, body |-> <<>>, next |-> i + 1]
        try(b) ==
            LET e == CloserFrom(s, b)
            IN IF e = 0 THEN none
               ELSE [ok |-> TRUE, body |-> SubSeq(s, b, e - 1),
                     next |-> e + Len(NL) + Len(FENCE)]
    IN IF ~IsAt(s, i, FENCE) THEN none
       ELSE LET withTag ==
                    IF IsAt(s, i + Len(FENCE), PYTHON \o NL)
                    THEN try(i + Len(FENCE) + Len(PYTHON) + Len(NL))
                    ELSE none
            IN IF withTag.ok THEN withTag
               ELSE IF IsAt(s, i + Len(FENCE), NL)
               THEN try(i + Len(FENCE) + Len(NL))
               ELSE none

\* The non-overlapping matches found scanning from position i, left to right.
RECURSIVE FindAllFrom(_, _)
FindAllFrom(s, i) ==
    IF i > Len(s) THEN <<>>
    ELSE LET m == MatchAt(s, i)
         IN IF m.ok THEN <<m.body>> \o FindAllFrom(s, m.next)
            ELSE FindAllFrom(s, i + 1)

re_findall(content) == FindAllFrom(content, 1)

(***************************************************************************)
(* The artifact extractors.                                                *)
(***************************************************************************)
\* the loop of _extract_code_from_messages: code_blocks after the messages
RECURSIVE CodeBlocksLoop(_, _, _)
CodeBlocksLoopNoFilter(messages, agent_name, code_blocks) ==
    IF messages = <<>> THEN code_blocks
    ELSE CodeBlocksLoop(Tail(messages), agent_name,
                        code_blocks \o re_findall(Head(messages).content))

\* a loop that keeps the blocks of the agent's latest message only
CodeBlocksLoopLastOnly(messages, agent_name, code_blocks) ==
    IF messages = <<>> THEN code_blocks
    ELSE LET message == Head(messages)
         IN CodeBlocksLoop(Tail(messages), agent_name,
                IF message.source = agent_name
                THEN re_findall(message.content)
                ELSE code_blocks)

CodeBlocksLoop(messages, agent_name, code_blocks) ==
    IF messages = <<>> THEN code_blocks
    ELSE LET message == Head(messages)
         IN CodeBlocksLoop(Tail(messages), agent_name,
                IF message.source = agent_name
                THEN code_blocks \o re_findall(message.content)
                ELSE code_blocks)

extract_code_from_messages(messages, agent_name) ==
    LET code_blocks == CodeBlocksLoop(messages, agent_name, <<>>)
    IN IF code_blocks # <<>> THEN StrJoin(NL \o NL, code_blocks)
       ELSE NoCodeFound

\* the loop of _extract_review_from_messages: reviews after the messages
RECURSIVE ReviewsLoop(_, _, _)
\* a loop that takes the content of every message, whoever wrote it
ReviewsLoopNoFilter(messages, agent_name, reviews) ==
    IF messages = <<>> THEN reviews
    ELSE ReviewsLoop(Tail(messages), agent_name,
                     Append(reviews, Head(messages).content))

ReviewsLoop(messages, agent_name, reviews) ==
    IF messages = <<>> THEN reviews
    ELSE LET message == Head(messages)
         IN ReviewsLoop(Tail(messages), agent_name,
                IF message.source = agent_name
                THEN Append(reviews, message.content)
                ELSE reviews)

extract_review_from_messages(messages, agent_name) ==
    LET reviews == ReviewsLoop(messages, agent_name, <<>>)
    IN IF reviews # <<>> THEN StrJoin(NL \o NL, reviews)
       ELSE NoReviewFound

\* A call of an extractor: the list it was handed as the call leaves it,
\* and what the call returns.  The extractors read the messages with get
\* and build their own lists; they assign nothing in the list handed to them.
extract_code_call_consuming(messages, agent_name) ==
    [messages |-> SelectSeq(messages, LAMBDA m : m.source # agent_name),
     output |-> extract_code_from_messages(messages, agent_name)]

extract_code_call(messages, agent_name) ==
    [messages |-> messages,
     output |-> extract_code_from_messages(messages, agent_name)]

extract_review_call(messages, agent_name) ==
    [messages |-> messages,
     output |-> extract_review_from_messages(messages, agent_name)]

(***************************************************************************)
(* The inputs: what a caller passes and what the completion client         *)
(* returns.                                                                *)
(***************************************************************************)
\* prose, no fence and no marker
TextPlain == <<"o", "k">>
\* a python-tagged block, prose, a bare block
TextTwoBlocks ==
    FENCE \o PYTHON \o NL \o <<"a">> \o NL \o FENCE \o <<"x">>
          \o FENCE \o NL \o <<"b">> \o NL \o FENCE
\* a block whose body is the text No code found
TextBlockSayingNoCode == FENCE \o NL \o NoCodeFound \o NL \o FENCE
\* the marker in lower case, and a block with an empty body
TextLowerCaseMarker == workflow_complete \o FENCE \o NL \o NL \o FENCE
\* a block followed by the marker
TextBlockAndMarker ==
    FENCE \o NL \o <<"d">> \o NL \o FENCE \o WORKFLOW_COMPLETE

\* a block tagged js, prose, a bare block
TextOtherTag ==
    FENCE \o <<"j", "s">> \o NL \o <<"c">> \o NL \o FENCE \o NL \o <<"t">>
          \o NL \o FENCE \o NL \o <<"d">> \o NL \o FENCE

\* the text No review found, as an agent may write it
TextSayingNoReview == NoReviewFound

ContentPool ==
    {TextPlain, TextTwoBlocks, TextBlockSayingNoCode, TextLowerCaseMarker,
     TextBlockAndMarker, TextSayingNoReview}

TaskPlain == <<"t">>
\* a task text that quotes the marker
TaskQuotingMarker == <<"e", "n", "d", " ">> \o WORKFLOW_COMPLETE
TaskPool == {TaskPlain, TaskQuotingMarker}

\* api_key argument of __init__; None is the default
None == "None"
ApiKeys == {"sk-1"}

\* participants=[self.code_writer, self.code_reviewer, self.code_optimizer]
Participants == <<"CodeWriter", "CodeReviewer", "CodeOptimizer">>
\* the source of the task message the team puts first in the thread
UserSource == "user"

(***************************************************************************)
(* The state.                                                              *)
(***************************************************************************)
VARIABLES
    pc,                 \* where the caller and run() are
    environ,            \* os.environ["OPENAI_API_KEY"], None when unset
    max_rounds,         \* self.max_rounds
    message_count,      \* the message counter of MaxMessageTermination
    text_mentioned,     \* what TextMentionTermination answered last
    task,               \* the task argument of run()
    message_thread,     \* the team's messages, the task message first
    speaker,            \* the agent whose completion is awaited
    next_speaker_index, \* the round-robin index of the team
    calls,              \* completion calls issued by this run
    result,             \* what run() returned: <<>> or <<WorkflowResult>>
    failure,            \* the exception in flight or raised, None otherwise
    runs,               \* run() calls made on the instance
    evaluations,        \* times the termination condition was asked, this run
    client_closed,      \* whether model_client.close() was awaited
    client_key,         \* the key in os.environ when model_client was built
    environ_alone,      \* os.environ if this instance were the only one
    other_pc,           \* where another instance in the same process is
    failure_context,    \* what run() attached to the exception it raised
    verbose,            \* the verbose argument of run()
    console             \* messages the console has printed, this run

vars ==
    <<pc, environ, max_rounds, message_count, text_mentioned, task,
      message_thread, speaker, next_speaker_index, calls, result, failure,
      runs, evaluations, client_closed, client_key, environ_alone,
      other_pc, failure_context, verbose, console>>

Init ==
    /\ pc = "unconstructed"
    /\ environ \in ApiKeys \cup {None}
    /\ max_rounds = 0
    /\ message_count = 0
    /\ text_mentioned = FALSE
    /\ task = <<>>
    /\ message_thread = <<>>
    /\ speaker = None
    /\ next_speaker_index = 0
    /\ calls = 0
    /\ result = <<>>
    /\ failure = None
    /\ runs = 0
    /\ evaluations = 0
    /\ client_closed = FALSE
    /\ client_key = None
    /\ environ_alone = environ
    /\ other_pc = "unconstructed"
    /\ failure_context = <<>>
    /\ verbose = FALSE
    /\ console = 0

(***************************************************************************)
(* The termination conditions, as autogen_agentchat evaluates them: the    *)
(* team hands every message it adds to the thread, the task message        *)
(* included, to the condition once.  MaxMessageTermination counts the      *)
(* messages handed to it and answers yes from max_messages on;             *)
(* TextMentionTermination answers yes when one of them holds the text.     *)
(* The condition object is made once, in __init__, and is shared by the    *)
(* runs of the instance: the team resets it when it answers yes, and not   *)
(* when a run ends by an exception.                                        *)
(***************************************************************************)
\* MaxMessageTermination: the counter after the messages are counted
MaxMessageCount(count, messages) == count + Len(messages)

\* a limit that is never reached
MaxMessageTerminationNever(count, max_messages) == FALSE

\* MaxMessageTermination(max_messages): whether the counter reached it
MaxMessageTermination(count, max_messages) == count >= max_messages

\* upper case of the letters of the marker
UpperChar(c) ==
    IF \E i \in 1..Len(workflow_complete) : workflow_complete[i] = c
    THEN WORKFLOW_COMPLETE[CHOOSE i \in 1..Len(workflow_complete) :
                               workflow_complete[i] = c]
    ELSE c

UpperCase(s) == [i \in 1..Len(s) |-> UpperChar(s[i])]

TextMentionIgnoringCase(messages) ==
    \E i \in 1..Len(messages) :
        Contains(UpperCase(messages[i].content), WORKFLOW_COMPLETE)

\* TextMentionTermination("WORKFLOW_COMPLETE") on the messages handed to it
TextMentionTermination(messages) ==
    \E i \in 1..Len(messages) :
        Contains(messages[i].content, WORKFLOW_COMPLETE)

TerminationBoth(count, messages) ==
    /\ MaxMessageTermination(MaxMessageCount(count, messages), max_rounds)
    /\ TextMentionTermination(messages)

\* self.termination_condition: MaxMessageTermination | TextMentionTermination
termination_condition(count, messages) ==
    \/ MaxMessageTermination(MaxMessageCount(count, messages), max_rounds)
    \/ TextMentionTermination(messages)

(***************************************************************************)
(* __init__                                                                *)
(***************************************************************************)
Construct(rounds, api_key) ==
    /\ pc = "unconstructed"
    /\ max_rounds' = rounds
    /\ IF api_key # None
       THEN /\ environ' = api_key
            /\ pc' = "idle"
       ELSE IF environ = None
       THEN /\ pc' = "ctor_raised"          \* ValueError
            /\ UNCHANGED environ
       ELSE /\ pc' = "idle"
            /\ UNCHANGED environ
    \* OpenAIChatCompletionClient(model=..., temperature=...) is given no
    \* key: the client takes the one the environment holds
    /\ client_key' = IF pc' = "idle" THEN environ' ELSE None
    /\ environ_alone' = IF api_key # None THEN api_key ELSE environ_alone
    /\ UNCHANGED <<verbose, console,
                   failure_context, evaluations, client_closed, other_pc,
                   message_count, text_mentioned, task, message_thread,
                   speaker, next_speaker_index, calls, result, failure, runs>>

(***************************************************************************)
(* run(): the team is created, the task message starts the thread, the     *)
(* termination condition is asked, and the first speaker is called.        *)
(***************************************************************************)
\* a rotation that passes over the next participant
NextSpeakerIndexSkipping(index) == (index + 2) % Len(Participants)

\* RoundRobinGroupChat: the index after the speaker at index was selected
NextSpeakerIndex(index) == (index + 1) % Len(Participants)

\* a team that asks every participant at once for a message
TeamStepFanOut(delta, index, issued, evaluated) ==
    /\ evaluations' = evaluated + 1
    /\ text_mentioned' = TextMentionTermination(delta)
    /\ IF termination_condition(message_count, delta)
       THEN /\ message_count' = 0
            /\ pc' = "team_returned"
            /\ speaker' = None
            /\ next_speaker_index' = index
            /\ calls' = issued
       ELSE /\ message_count' = MaxMessageCount(message_count, delta)
            /\ pc' = "awaiting"
            /\ speaker' = Participants[index + 1]
            /\ next_speaker_index' = NextSpeakerIndex(index)
            /\ calls' = issued + Len(Participants)

\* the team's step after the messages delta were added to the thread; index
\* is the round-robin index, issued the completion calls made so far and
\* evaluated the times the termination condition was asked so far
TeamStep(delta, index, issued, evaluated) ==
    /\ evaluations' = evaluated + 1
    /\ text_mentioned' = TextMentionTermination(delta)
    /\ IF termination_condition(message_count, delta)
       THEN \* the condition is reset and the team's run returns
            /\ message_count' = 0
            /\ pc' = "team_returned"
            /\ speaker' = None
            /\ next_speaker_index' = index
            /\ calls' = issued
       ELSE \* the next speaker in rotation is asked for a message
            /\ message_count' = MaxMessageCount(message_count, delta)
            /\ pc' = "awaiting"
            /\ speaker' = Participants[index + 1]
            /\ next_speaker_index' = NextSpeakerIndex(index)
            /\ calls' = issued + 1

RunStart(t) ==
    /\ pc \in {"idle", "returned", "raised"}
    /\ ~client_closed      \* no caller calls run() after close()
    /\ runs < MaxRuns
    /\ runs' = runs + 1
    /\ task' = t
    /\ result' = <<>>
    /\ failure' = None
    /\ failure_context' = <<>>
    /\ verbose' = FALSE             \* result = await team.run(...)
    /\ console' = 0
    /\ LET first == [source |-> UserSource, content |-> t]
       IN /\ message_thread' = <<first>>
          /\ TeamStep(<<first>>, 0, 0, 0)
    /\ UNCHANGED <<client_key, environ_alone, other_pc,
                   client_closed, environ, max_rounds>>

\* a console run that calls the first speaker without asking the
\* termination condition about the task message
RunStartVerboseUnconditioned(t) ==
    /\ pc \in {"idle", "returned", "raised"}
    /\ ~client_closed
    /\ runs < MaxRuns
    /\ runs' = runs + 1
    /\ task' = t
    /\ result' = <<>>
    /\ failure' = None
    /\ failure_context' = <<>>
    /\ verbose' = TRUE
    /\ console' = 1
    /\ message_thread' = <<[source |-> UserSource, content |-> t]>>
    /\ evaluations' = 1
    /\ text_mentioned' = FALSE
    /\ message_count' = message_count + 1
    /\ pc' = "awaiting"
    /\ speaker' = Participants[1]
    /\ next_speaker_index' = NextSpeakerIndex(0)
    /\ calls' = 1
    /\ UNCHANGED <<client_key, environ_alone, other_pc,
                   client_closed, environ, max_rounds>>

\* run(task, verbose=True): result = await console.run_stream(task=task,
\* team=team, termination_condition=self.termination_condition), taken as
\* the run of the team it is given with the condition it is given, every
\* message printed as it is added to the thread
RunStartVerbose(t) ==
    /\ pc \in {"idle", "returned", "raised"}
    /\ ~client_closed
    /\ runs < MaxRuns
    /\ runs' = runs + 1
    /\ task' = t
    /\ result' = <<>>
    /\ failure' = None
    /\ failure_context' = <<>>
    /\ verbose' = TRUE
    /\ console' = 1
    /\ LET first == [source |-> UserSource, content |-> t]
       IN /\ message_thread' = <<first>>
          /\ TeamStep(<<first>>, 0, 0, 0)
    /\ UNCHANGED <<client_key, environ_alone, other_pc,
                   client_closed, environ, max_rounds>>

(***************************************************************************)
(* A turn: the awaited completion returns, the speaker's message is added  *)
(* to the thread and the termination condition is asked.                   *)
(***************************************************************************)
\* a message that carries the role of the completion instead of the agent
ProduceReturnsUntagged(content) ==
    /\ pc = "awaiting"
    /\ console' = IF verbose THEN console + 1 ELSE console
    /\ LET message == [source |-> "assistant", content |-> content]
       IN /\ message_thread' = Append(message_thread, message)
          /\ TeamStep(<<message>>, next_speaker_index, calls, evaluations)
    /\ UNCHANGED <<verbose,
                   failure_context, client_key, environ_alone, other_pc,
                   client_closed, environ, max_rounds, task, result, failure,
                   runs>>

\* a completion that also arrives after the team's run returned
ProduceReturnsLate(content) ==
    /\ pc \in {"awaiting", "team_returned"}
    /\ console' = IF verbose THEN console + 1 ELSE console
    /\ LET message == [source |-> speaker, content |-> content]
       IN /\ message_thread' = Append(message_thread, message)
          /\ TeamStep(<<message>>, next_speaker_index, calls, evaluations)
    /\ UNCHANGED <<verbose,
                   failure_context, client_key, environ_alone, other_pc,
                   client_closed, environ, max_rounds, task, result, failure,
                   runs>>

ProduceReturns(content) ==
    /\ pc = "awaiting"
    /\ console' = IF verbose THEN console + 1 ELSE console
    /\ LET message == [source |-> speaker, content |-> content]
       IN /\ message_thread' = Append(message_thread, message)
          /\ TeamStep(<<message>>, next_speaker_index, calls, evaluations)
    /\ UNCHANGED <<verbose,
                   failure_context, client_key, environ_alone, other_pc,
                   client_closed, environ, max_rounds, task, result, failure,
                   runs>>

\* the speaker is called again after a failed completion
ProduceFailsAndRetries ==
    /\ pc = "awaiting"
    /\ failure' = "GenerationFailure"
    /\ calls' = calls + 1
    /\ UNCHANGED <<verbose, console,
                   failure_context, client_key, environ_alone, other_pc,
                   evaluations, client_closed,
                   pc, environ, max_rounds, message_count, text_mentioned,
                   task, message_thread, speaker, next_speaker_index, result,
                   runs>>

\* the awaited completion fails: the exception leaves the team's run and
\* arrives in the try block of run()
ProduceFails ==
    /\ pc = "awaiting"
    /\ pc' = "team_raised"
    /\ failure' = "GenerationFailure"
    /\ UNCHANGED <<verbose, console,
                   failure_context, client_key, environ_alone, other_pc,
                   evaluations, client_closed,
                   environ, max_rounds, message_count, text_mentioned, task,
                   message_thread, speaker, next_speaker_index, calls, result,
                   runs>>

\* the task running run() is cancelled while it awaits: CancelledError is
\* raised at the await and is no Exception, so the except clause is passed
Cancel ==
    /\ pc = "awaiting"
    /\ pc' = "raised"
    /\ failure' = "CancelledError"
    /\ UNCHANGED <<verbose, console,
                   failure_context, client_key, environ_alone, other_pc,
                   evaluations, client_closed,
                   environ, max_rounds, message_count, text_mentioned, task,
                   message_thread, speaker, next_speaker_index, calls, result,
                   runs>>

(***************************************************************************)
(* run() after the team: the result on success, the except clause on       *)
(* failure.                                                                *)
(***************************************************************************)
\* a result whose initial and final code are taken from the other agent
WorkflowResultSwapped(original_task, conversation_history) ==
    [original_task |-> original_task,
     initial_code |->
        extract_code_from_messages(conversation_history, "CodeOptimizer"),
     review_feedback |->
        extract_review_from_messages(conversation_history, "CodeReviewer"),
     final_code |->
        extract_code_from_messages(conversation_history, "CodeWriter"),
     conversation_history |-> conversation_history]

\* lines 224-238: the three extractor calls on conversation_history, one
\* after the other, and the result built from what they return
WorkflowResult(original_task, conversation_history) ==
    LET writer == extract_code_call(conversation_history, "CodeWriter")
        reviewer == extract_review_call(writer.messages, "CodeReviewer")
        optimizer == extract_code_call(reviewer.messages, "CodeOptimizer")
    IN [original_task |-> original_task,
        initial_code |-> writer.output,
        review_feedback |-> reviewer.output,
        final_code |-> optimizer.output,
        conversation_history |-> optimizer.messages]

RunReturn ==
    /\ pc = "team_returned"
    /\ pc' = "returned"
    /\ result' = <<WorkflowResult(task, message_thread)>>
    /\ UNCHANGED <<verbose, console,
                   failure_context, client_key, environ_alone, other_pc,
                   evaluations, client_closed,
                   environ, max_rounds, message_count, text_mentioned, task,
                   message_thread, speaker, next_speaker_index, calls, failure,
                   runs>>

\* an except clause that returns a result built from nothing
RunExceptSwallows ==
    /\ pc = "team_raised"
    /\ pc' = "returned"
    /\ failure' = None
    /\ result' = <<WorkflowResult(task, <<>>)>>
    /\ UNCHANGED <<verbose, console,
                   failure_context, client_key, environ_alone, other_pc,
                   evaluations, client_closed,
                   environ, max_rounds, message_count, text_mentioned, task,
                   message_thread, speaker, next_speaker_index, calls, runs>>

\* an except clause that asks the failed speaker once more
RunExceptRetries ==
    /\ pc = "team_raised"
    /\ pc' = "awaiting"
    /\ calls' = calls + 1
    /\ UNCHANGED <<verbose, console,
                   failure_context,
                   client_key, environ_alone, other_pc, evaluations,
                   client_closed, environ, max_rounds, message_count,
                   text_mentioned, task, message_thread, speaker,
                   next_speaker_index, result, failure, runs>>

\* except Exception as e: ... raise
RunExcept ==
    /\ pc = "team_raised"
    /\ pc' = "raised"
    /\ failure_context' = <<>>     \* a bare raise: e as it was caught
    /\ UNCHANGED <<verbose, console,
                   client_key, environ_alone, other_pc,
                   evaluations, client_closed,
                   environ, max_rounds, message_count, text_mentioned, task,
                   message_thread, speaker, next_speaker_index, calls, result,
                   failure, runs>>

(***************************************************************************)
(* close(), as the callers reach it: the finally clause that follows the   *)
(* try block around run(), on return, on an exception and on cancellation. *)
(***************************************************************************)
\* a caller that closes after the try block instead of in a finally clause
CloseOnSuccessOnly ==
    /\ pc = "returned"
    /\ ~client_closed
    /\ client_closed' = TRUE
    /\ UNCHANGED <<verbose, console,
                   failure_context, client_key, environ_alone, other_pc,
                   pc, environ, max_rounds, message_count, text_mentioned,
                   task, message_thread, speaker, next_speaker_index, calls,
                   result, failure, runs, evaluations>>

\* finally: await workflow.close()  ->  await self.model_client.close()
Close ==
    /\ pc \in {"returned", "raised"}
    /\ ~client_closed
    /\ client_closed' = TRUE
    /\ UNCHANGED <<verbose, console,
                   failure_context, client_key, environ_alone, other_pc,
                   pc, environ, max_rounds, message_count, text_mentioned,
                   task, message_thread, speaker, next_speaker_index, calls,
                   result, failure, runs, evaluations>>

(***************************************************************************)
(* The specification.                                                      *)
(***************************************************************************)
Next ==
    \/ \E rounds \in (0 - 1)..MaxRoundsBound, api_key \in ApiKeys \cup {None} :
          Construct(rounds, api_key)
    \/ \E t \in TaskPool : RunStart(t)
    \/ \E content \in ContentPool : ProduceReturns(content)
    \/ ProduceFails
    \/ Cancel
    \/ RunReturn
    \/ RunExcept
    \/ Close

Spec == Init /\ [][Next]_vars

(***************************************************************************)
(* The specification with progress: an awaited completion returns or       *)
(* fails.                                                                  *)
(***************************************************************************)
CompletionEnds ==
    \/ \E content \in ContentPool : ProduceReturns(content)
    \/ ProduceFails

SpecFair ==
    /\ Spec
    /\ WF_vars(CompletionEnds)

(***************************************************************************)
(* The long conversation: a key is configured, the task is plain, no       *)
(* completion fails, and max_rounds leaves room for every agent to speak   *)
(* twice (the task message is counted, so six agent messages need seven).  *)
(***************************************************************************)
ScenarioRounds == {MaxRoundsBound + 2, MaxRoundsBound + 3}
ScenarioPool == {TextPlain, TextTwoBlocks, TextBlockAndMarker}

NextScenario ==
    \/ \E rounds \in ScenarioRounds, api_key \in ApiKeys :
          Construct(rounds, api_key)
    \/ /\ runs = 0
       /\ RunStart(TaskPlain)
    \/ \E content \in ScenarioPool : ProduceReturns(content)
    \/ RunReturn

SpecScenario == Init /\ [][NextScenario]_vars

(***************************************************************************)
(* The callers of the repository: the workflow is constructed, run() is    *)
(* awaited once in a try block, and the finally clause awaits close().     *)
(* The finally clause is reached whenever the try block is left.           *)
(***************************************************************************)
NextCaller ==
    \/ \E rounds \in 1..MaxRoundsBound, api_key \in ApiKeys \cup {None} :
          Construct(rounds, api_key)
    \/ /\ runs = 0
       /\ \E t \in TaskPool : RunStart(t)
    \/ \E content \in ContentPool : ProduceReturns(content)
    \/ ProduceFails
    \/ Cancel
    \/ RunReturn
    \/ RunExcept
    \/ Close

SpecCaller == Init /\ [][NextCaller]_vars /\ WF_vars(Close)

(***************************************************************************)
(* Two instances in one process.  The other instance has its own client,   *)
(* agents, termination condition and team (self.* of lines 65-88 and       *)
(* 198-200), so of its steps only the constructor's write to os.environ    *)
(* touches what this instance reads.                                       *)
(***************************************************************************)
OtherApiKeys == {"sk-2"}

\* __init__ of the other instance, lines 70-73
ConstructOther(api_key) ==
    /\ other_pc = "unconstructed"
    /\ IF api_key # None
       THEN /\ environ' = api_key
            /\ other_pc' = "idle"
       ELSE IF environ = None
       THEN /\ other_pc' = "ctor_raised"
            /\ UNCHANGED environ
       ELSE /\ other_pc' = "idle"
            /\ UNCHANGED environ
    /\ UNCHANGED <<verbose, console,
                   failure_context,
                   pc, max_rounds, message_count, text_mentioned, task,
                   message_thread, speaker, next_speaker_index, calls, result,
                   failure, runs, evaluations, client_closed, client_key,
                   environ_alone>>

\* run() of the other instance starts: its own team, its own thread
OtherRunStart ==
    /\ other_pc = "idle"
    /\ other_pc' = "awaiting"
    /\ UNCHANGED <<verbose, console,
                   failure_context,
                   pc, environ, max_rounds, message_count, text_mentioned,
                   task, message_thread, speaker, next_speaker_index, calls,
                   result, failure, runs, evaluations, client_closed,
                   client_key, environ_alone>>

\* run() of the other instance ends
OtherRunEnd ==
    /\ other_pc = "awaiting"
    /\ other_pc' = "returned"
    /\ UNCHANGED <<verbose, console,
                   failure_context,
                   pc, environ, max_rounds, message_count, text_mentioned,
                   task, message_thread, speaker, next_speaker_index, calls,
                   result, failure, runs, evaluations, client_closed,
                   client_key, environ_alone>>

NextTwoInstances ==
    \/ \E rounds \in 1..MaxRoundsBound, api_key \in ApiKeys \cup {None} :
          Construct(rounds, api_key)
    \/ \E api_key \in OtherApiKeys \cup {None} : ConstructOther(api_key)
    \/ OtherRunStart
    \/ OtherRunEnd
    \/ /\ runs = 0
       /\ RunStart(TaskPlain)
    \/ \E content \in ScenarioPool : ProduceReturns(content)
    \/ ProduceFails
    \/ RunReturn
    \/ RunExcept

SpecTwoInstances == Init /\ [][NextTwoInstances]_vars

(***************************************************************************)
(* Conversations whose messages hold blocks with and without a tag, among  *)
(* them a tag other than python; no completion fails.                      *)
(***************************************************************************)
TaggedPool == {TextPlain, TextTwoBlocks, TextOtherTag}

NextTagged ==
    \/ \E rounds \in 1..MaxRoundsBound, api_key \in ApiKeys :
          Construct(rounds, api_key)
    \/ /\ runs = 0
       /\ RunStart(TaskPlain)
    \/ \E content \in TaggedPool : ProduceReturns(content)
    \/ RunReturn

SpecTagged == Init /\ [][NextTagged]_vars

(***************************************************************************)
(* One run per instance, with verbose or without.                          *)
(***************************************************************************)
NextVerbose ==
    \/ \E rounds \in 1..MaxRoundsBound, api_key \in ApiKeys :
          Construct(rounds, api_key)
    \/ /\ runs = 0
       /\ \E t \in TaskPool : RunStart(t)
    \/ /\ runs = 0
       /\ \E t \in TaskPool : RunStartVerbose(t)
    \/ \E content \in ScenarioPool : ProduceReturns(content)
    \/ ProduceFails
    \/ RunReturn
    \/ RunExcept

SpecVerbose == Init /\ [][NextVerbose]_vars

(***************************************************************************)
(* The scheduler states of the specification, read from the state.         *)
(***************************************************************************)
\* the messages the agents produced: the thread without the task message
Produced == IF message_thread = <<>> THEN <<>> ELSE Tail(message_thread)

Running == pc = "awaiting"
Completed == pc \in {"team_returned", "returned"}
Failed == pc \in {"team_raised", "raised"}

HasMarker(text) == Contains(text, WORKFLOW_COMPLETE)

NoMarkerInThread ==
    \A i \in 1..Len(message_thread) : ~HasMarker(message_thread[i].content)

(***************************************************************************)
(* C1: with max_rounds = N >= 1, no marker anywhere and no failure, a run  *)
(* ends completed with exactly N produced messages besides the task        *)
(* message.                                                                *)
(***************************************************************************)
C1_ExactlyMaxRoundsProduced ==
    (pc = "returned" /\ runs = 1 /\ max_rounds >= 1 /\ NoMarkerInThread)
        => Len(Produced) = max_rounds

(***************************************************************************)
(* C2: when the marker first appears in the message of turn k, the run is  *)
(* completed with exactly k produced messages: that message is the last of *)
(* the thread and of the returned conversation history, and no completion  *)
(* call follows it.                                                        *)
(***************************************************************************)
C2_MarkerStopsAtTurnK ==
    \A k \in 1..Len(Produced) :
        HasMarker(Produced[k].content)
            => /\ Completed
               /\ Len(Produced) = k
               /\ calls = k
               /\ pc = "returned"
                    => Len(result[1].conversation_history) = k + 1

C2_Witness ==
    /\ pc = "returned"
    /\ max_rounds = 5
    /\ Len(Produced) = 2
    /\ ~HasMarker(Produced[1].content)
    /\ HasMarker(Produced[2].content)

(***************************************************************************)
(* C3: the i-th produced message, counted from 0, has as source the name   *)
(* of the participant i mod 3: CodeWriter, CodeReviewer, CodeOptimizer,    *)
(* CodeWriter, ...                                                         *)
(***************************************************************************)
C3_RoundRobinOrder ==
    /\ \A i \in 0..(Len(Produced) - 1) :
          Produced[i + 1].source = Participants[(i % Len(Participants)) + 1]
    /\ Running => speaker =
          Participants[(Len(Produced) % Len(Participants)) + 1]

C3_Witness ==
    /\ Len(Produced) = 4
    /\ Produced[4].source = "CodeWriter"
    /\ Produced[3].source = "CodeOptimizer"

C5_FailurePropagates ==
    /\ [](pc = "raised" => result = <<>> /\ failure # None)
    /\ [][pc = "team_raised"
             => pc' = "raised" /\ failure' = failure /\ result' = <<>>]_vars

C5_Witness ==
    /\ pc = "raised"
    /\ failure = "GenerationFailure"
    /\ Len(Produced) = 1

C7_CancelAtTurnBoundary ==
    failure = "CancelledError" => Len(Produced) = calls

(***************************************************************************)
(* C8: a workflow with a non-positive max_rounds is rejected at            *)
(* construction: it is never ready to run.                                 *)
(***************************************************************************)
C8_NonPositiveRoundsRejected ==
    max_rounds <= 0 => pc \in {"unconstructed", "ctor_raised"}

(***************************************************************************)
(* C9: the extracted code of an agent is the bodies of the code blocks     *)
(* matched in the messages of that agent, in the order of the messages and *)
(* then of the blocks within a message, joined by a blank line; the        *)
(* messages of other sources add nothing.                                  *)
(***************************************************************************)
MessagesOf(messages, agent_name) ==
    SelectSeq(messages, LAMBDA m : m.source = agent_name)

RECURSIVE BodiesInOrder(_)
BodiesInOrder(messages) ==
    IF messages = <<>> THEN <<>>
    ELSE BodiesInOrder(SubSeq(messages, 1, Len(messages) - 1))
            \o re_findall(messages[Len(messages)].content)

RECURSIVE JoinedByBlankLine(_)
JoinedByBlankLine(bodies) ==
    IF Len(bodies) = 1 THEN bodies[1]
    ELSE JoinedByBlankLine(SubSeq(bodies, 1, Len(bodies) - 1))
            \o <<"\n", "\n">> \o bodies[Len(bodies)]

CodeIsJoinedBodies(code, messages, agent_name) ==
    LET bodies == BodiesInOrder(MessagesOf(messages, agent_name))
    IN bodies # <<>> => code = JoinedByBlankLine(bodies)

C9_CodeIsBodiesInOrder ==
    pc = "returned"
        => /\ CodeIsJoinedBodies(result[1].initial_code,
                                 result[1].conversation_history, "CodeWriter")
           /\ CodeIsJoinedBodies(result[1].final_code,
                                 result[1].conversation_history,
                                 "CodeOptimizer")

C9_Witness ==
    /\ pc = "returned"
    /\ Len(Produced) = 4
    /\ Produced[1].content = TextTwoBlocks
    /\ Produced[2].content = TextTwoBlocks
    /\ Produced[3].content = TextPlain
    /\ Produced[4].content = TextBlockSayingNoCode
    /\ result[1].initial_code =
          <<"a", "\n", "\n", "b", "\n", "\n">> \o NoCodeFound

(***************************************************************************)
(* C10: the extracted code is the value No code found exactly when no code *)
(* block is matched in the messages of the agent.                          *)
(***************************************************************************)
C10_AbsentIffNoBlock ==
    pc = "returned"
        => (result[1].initial_code = NoCodeFound
              <=> BodiesInOrder(MessagesOf(result[1].conversation_history,
                                           "CodeWriter")) = <<>>)

(***************************************************************************)
(* C11: the extracted review of an agent is the contents of all messages   *)
(* of that agent, each once and in thread order, joined by a blank line,   *)
(* and it is the value No review found exactly when the agent has no       *)
(* message.                                                                *)
(***************************************************************************)
ContentsOf(messages) == [i \in 1..Len(messages) |-> messages[i].content]

C11_ReviewIsContentsAbsentIffNone ==
    pc = "returned"
        => LET own == MessagesOf(result[1].conversation_history,
                                 "CodeReviewer")
           IN /\ own # <<>>
                   => result[1].review_feedback
                          = JoinedByBlankLine(ContentsOf(own))
              /\ result[1].review_feedback = NoReviewFound <=> own = <<>>

(***************************************************************************)
(* C12: the extractors leave the transcript as it is and answer the same   *)
(* on every call: after run() made its three calls the history is the      *)
(* thread of the team, and further calls on it, in either order, leave it  *)
(* unchanged and return what the same call returned before.                *)
(***************************************************************************)
CallsAgreeOn(history, agent_name) ==
    LET code1 == extract_code_call(history, agent_name)
        review1 == extract_review_call(code1.messages, agent_name)
        code2 == extract_code_call(review1.messages, agent_name)
        review2 == extract_review_call(code2.messages, agent_name)
    IN /\ code1.messages = history
       /\ review1.messages = history
       /\ code2.messages = history
       /\ review2.messages = history
       /\ code2.output = code1.output
       /\ review2.output = review1.output

MarkerOnlyInSixth ==
    /\ Len(Produced) >= 6
    /\ HasMarker(Produced[6].content)
    /\ \A i \in 1..5 : ~HasMarker(Produced[i].content)
    /\ ~HasMarker(task)

StopsAtSixth ==
    MarkerOnlyInSixth
        => /\ Len(Produced) = 6
           /\ Produced[3].source = "CodeOptimizer"
           /\ Produced[6].source = "CodeOptimizer"
           /\ pc \in {"team_returned", "returned"}

C13_FinalCodeIsLastBlock ==
    /\ StopsAtSixth
    /\ MarkerOnlyInSixth /\ pc = "returned"
          => result[1].final_code
                = JoinedByBlankLine(re_findall(Produced[6].content))

(***************************************************************************)
(* C13 as the code has it: the final code is every block of both messages  *)
(* of the CodeOptimizer, the third before the sixth, joined by a blank     *)
(* line; it is the block of the sixth message alone exactly when the third *)
(* holds no block.                                                         *)
(***************************************************************************)
C13_FinalCodeIsBothMessages ==
    /\ StopsAtSixth
    /\ MarkerOnlyInSixth /\ pc = "returned"
          => LET earlier == re_findall(Produced[3].content)
                 final == re_findall(Produced[6].content)
             IN /\ final # <<>>
                /\ result[1].final_code = JoinedByBlankLine(earlier \o final)
                /\ result[1].final_code = JoinedByBlankLine(final)
                      <=> earlier = <<>>

C13_Witness ==
    /\ MarkerOnlyInSixth
    /\ pc = "returned"
    /\ re_findall(Produced[3].content) = <<<<"a">>, <<"b">>>>
    /\ result[1].final_code
          = <<"a", "\n", "\n", "b", "\n", "\n", "d">>

(***************************************************************************)
(* C14: run() has returned a result exactly when the team's run completed  *)
(* and run() returned; the result then holds the task argument, the code   *)
(* extracted for CodeWriter, the review extracted for CodeReviewer, the    *)
(* code extracted for CodeOptimizer and the whole thread in the order the  *)
(* messages were produced.                                                 *)
(***************************************************************************)
C14_ResultOnSuccessOnly ==
    /\ result # <<>> <=> pc = "returned"
    /\ result # <<>>
          => /\ Len(result) = 1
             /\ failure = None
             /\ result[1].original_task = task
             /\ result[1].initial_code
                   = extract_code_from_messages(message_thread, "CodeWriter")
             /\ result[1].review_feedback
                   = extract_review_from_messages(message_thread,
                                                  "CodeReviewer")
             /\ result[1].final_code
                   = extract_code_from_messages(message_thread,
                                                "CodeOptimizer")
             /\ result[1].conversation_history = message_thread

C14_Witness ==
    /\ pc = "returned"
    /\ Len(Produced) = 3
    /\ result[1].original_task = TaskPlain
    /\ result[1].initial_code = <<"a", "\n", "\n", "b">>
    /\ result[1].review_feedback = TextPlain
    /\ result[1].final_code = <<"d">>
    /\ Len(result[1].conversation_history) = 4

(***************************************************************************)
(* C15: every run ends.  When each awaited completion returns or fails, a  *)
(* run that is awaiting a completion reaches Completed or Failed, and the  *)
(* thread never holds a produced message beyond the max_rounds-th.         *)
(***************************************************************************)
C15_RunTerminatesWithinLimit ==
    /\ [](\A i \in 1..Len(Produced) : i <= max_rounds)
    /\ Running ~> (Completed \/ Failed)

C15_Witness ==
    /\ pc = "returned"
    /\ NoMarkerInThread
    /\ max_rounds = 4
    /\ Len(Produced) = 3

(***************************************************************************)
(* C16: whichever way run() is left (it returned, it raised the failure of *)
(* a completion, it was cancelled) the client is closed in the end, and    *)
(* the client is closed only after run() was left: never while a           *)
(* completion is awaited or the team's run is being finished.              *)
(***************************************************************************)
RunLeft == pc \in {"returned", "raised"}

C16_ClientReleasedOnExit ==
    /\ RunLeft ~> client_closed
    /\ [](client_closed => RunLeft)
    /\ [][client_closed' # client_closed
             => RunLeft /\ client_closed' /\ pc' = pc
                /\ message_thread' = message_thread]_vars

C16_Witness ==
    /\ client_closed
    /\ pc = "raised"
    /\ failure = "CancelledError"
    /\ Len(Produced) = 2

(***************************************************************************)
(* C17: the termination condition is asked exactly once after every        *)
(* message added to the thread and before the next agent is called; when   *)
(* it holds the run is completed with no further call, so the last message *)
(* of a completed thread is from the agent whose message satisfied the     *)
(* condition.                                                              *)
(***************************************************************************)
AgentNames == {Participants[i] : i \in 1..Len(Participants)}

C17_LastMessageFromTerminatingAgent ==
    /\ runs > 0 => evaluations = Len(message_thread)
    /\ Running => calls = Len(Produced) + 1
    /\ Completed /\ max_rounds >= 1
          => /\ calls = Len(Produced)
             /\ message_thread[Len(message_thread)].source \in AgentNames

(***************************************************************************)
(* C18: the team of a run is idle until run() starts it, is then running,  *)
(* and ends completed or failed.  Running is entered only by the start of  *)
(* a run, from a state where no team is running; within a run a completed  *)
(* or failed team stays so and its thread gets no further message; a run   *)
(* is never completed and failed at once.                                  *)
(***************************************************************************)
\* run() builds a new team at every call (lines 198-200); that team is idle
\* when the workflow is constructed and run() is not in progress
Idle == pc \in {"idle", "returned", "raised"}

C18_SchedulerStates ==
    /\ [](Completed => failure = None)
    /\ [](Failed => failure # None /\ result = <<>>)
    /\ [][runs' # runs
             => Idle /\ runs' = runs + 1 /\ (Running' \/ Completed')]_vars
    /\ [][runs' = runs
             => /\ Running' => Running
                /\ Completed
                      => Completed' /\ message_thread' = message_thread
                /\ Failed
                      => Failed' /\ message_thread' = message_thread]_vars

C18_Witness ==
    /\ runs = 2
    /\ pc = "raised"
    /\ Len(Produced) = 1
    /\ failure = "GenerationFailure"
    /\ ~client_closed

(***************************************************************************)
(* C19: in every state of a run each message of the thread has a source    *)
(* that is one of the agent names.                                         *)
(***************************************************************************)
C19_EverySourceIsAnAgent ==
    \A i \in 1..Len(message_thread) :
        message_thread[i].source \in AgentNames

(***************************************************************************)
(* C19 as the code has it: the first message of the thread is the task     *)
(* message, whose source is "user" and whose content is the task; every    *)
(* message after it has a source that is one of the agent names.           *)
(***************************************************************************)
C19_EverySourceButTheTaskIsAnAgent ==
    runs > 0
        => /\ message_thread # <<>>
           /\ message_thread[1].source = UserSource
           /\ message_thread[1].source \notin AgentNames
           /\ message_thread[1].content = task
           /\ \A i \in 2..Len(message_thread) :
                 message_thread[i].source \in AgentNames

C19_Witness ==
    /\ pc = "awaiting"
    /\ Len(message_thread) = 4
    /\ message_thread[1].source = "user"
    /\ message_thread[4].source = "CodeOptimizer"

(***************************************************************************)
(* C20: during a run the thread only grows at its end, one message per     *)
(* turn, and each turn moves the turn counter up by one, so the turn       *)
(* counter is the number of produced messages.  The counter the code has   *)
(* is the message counter of MaxMessageTermination.                        *)
(***************************************************************************)
IsPrefix(s, t) == Len(s) <= Len(t) /\ SubSeq(t, 1, Len(s)) = s

C20_TurnCounterIsProduced ==
    /\ [][runs' = runs
             => /\ IsPrefix(message_thread, message_thread')
                /\ Len(message_thread') <= Len(message_thread) + 1]_vars
    /\ [][runs' = runs /\ Running'
             => message_count' - message_count
                   = Len(message_thread') - Len(message_thread)]_vars
    /\ [](Running => message_count = Len(Produced))

(***************************************************************************)
(* C21: within a run at most one completion call is in progress: the call  *)
(* of turn i+1 is issued only in the step that added the message of turn i *)
(* to the thread and asked the termination condition about it.             *)
(***************************************************************************)
\* the calls issued by this run that neither returned a message nor failed
InProgress ==
    calls - Len(Produced) - (IF failure = None THEN 0 ELSE 1)

C21_OneCallInProgress ==
    /\ [](InProgress \in {0, 1})
    /\ [](InProgress = 1 <=> Running)
    /\ [](Running => /\ evaluations = Len(message_thread)
                     /\ speaker \in AgentNames)
    /\ [][runs' = runs /\ calls' # calls
             => /\ calls' = calls + 1
                /\ InProgress = 1
                /\ Len(message_thread') = Len(message_thread) + 1
                /\ evaluations' = evaluations + 1]_vars

C21_Witness ==
    /\ Running
    /\ InProgress = 1
    /\ calls = 3
    /\ Len(Produced) = 2
    /\ speaker = "CodeOptimizer"

(***************************************************************************)
(* C22: an instance that shares the process with another instance, their   *)
(* steps interleaved in any order, is constructed or rejected as it would  *)
(* be alone, and its client has the key it would have alone.               *)
(***************************************************************************)
C22_CredentialsAsWhenAlone ==
    /\ pc # "unconstructed"
          => (pc = "ctor_raised" <=> environ_alone = None)
    /\ pc \notin {"unconstructed", "ctor_raised"}
          => client_key = environ_alone

(***************************************************************************)
(* C23: nothing is retried.  Every turn issues exactly one completion      *)
(* call; after a failed completion the calls of the run stay at the        *)
(* produced messages plus one, the failed call, and the failure stays as   *)
(* it is until run() is called again.                                      *)
(***************************************************************************)
C23_NoRetry ==
    /\ [](failure = "GenerationFailure" => calls = Len(Produced) + 1)
    /\ [](failure = None /\ ~Running => calls = Len(Produced))
    /\ [][runs' = runs /\ failure # None
             => calls' = calls /\ failure' = failure /\ ~Running']_vars
    /\ [][runs' = runs /\ message_thread' # message_thread
             => /\ Len(message_thread') = Len(message_thread) + 1
                /\ calls' \in {calls, calls + 1}]_vars

C23_Witness ==
    /\ pc = "raised"
    /\ runs = 1
    /\ failure = "GenerationFailure"
    /\ calls = 2
    /\ Len(Produced) = 1
    /\ Produced[1].source = "CodeWriter"

(***************************************************************************)
(* C24: the failure run() raises to its caller carries the index of the    *)
(* last successful turn, the name of the last agent that acted and the     *)
(* partial transcript, as they are in the team when the completion fails.  *)
(***************************************************************************)
C24_FailureCarriesContext ==
    pc = "raised" /\ failure = "GenerationFailure"
        => failure_context
              = <<[last_turn |-> Len(Produced),
                   last_agent |-> message_thread[Len(message_thread)].source,
                   partial_transcript |-> message_thread]>>

(***************************************************************************)
(* C25: the termination decision depends on the thread and the count of    *)
(* the current run only.  Every run, a second one on the same instance     *)
(* too, counts from its own first message, and without the marker it ends  *)
(* where a first run with the same completions ends: when its thread,      *)
(* the task message counted as the code counts it, holds max_rounds        *)
(* messages.                                                               *)
(***************************************************************************)
C25_NoStateAcrossRuns ==
    /\ Running => message_count = Len(message_thread)
    /\ Running /\ max_rounds >= 1 => Len(message_thread) < max_rounds
    /\ Completed /\ max_rounds >= 1 /\ NoMarkerInThread
          => Len(message_thread) = max_rounds

(***************************************************************************)
(* C26: the extracted code bodies of a message are the bodies of its       *)
(* fenced regions, each opening fence (bare or with any tag up to the end  *)
(* of its line) paired with the closing fence that follows it; what lies   *)
(* between the closing fence of a region and the opening fence of the next *)
(* is no body.                                                             *)
(***************************************************************************)
\* the first newline at or after position i, 0 when there is none
NewlineFrom(s, i) ==
    LET cands == {n \in i..Len(s) : s[n] = "\n"}
    IN IF cands = {} THEN 0
       ELSE CHOOSE n \in cands : \A m \in cands : n <= m

\* the bodies of the fenced regions that open at or after position i
RECURSIVE FencedBodiesFrom(_, _)
FencedBodiesFrom(s, i) ==
    IF i > Len(s) THEN <<>>
    ELSE IF ~IsAt(s, i, FENCE) THEN FencedBodiesFrom(s, i + 1)
    ELSE LET n == NewlineFrom(s, i + Len(FENCE))
             e == IF n = 0 THEN 0 ELSE CloserFrom(s, n + 1)
         IN IF e = 0 THEN <<>>
            ELSE <<SubSeq(s, n + 1, e - 1)>>
                    \o FencedBodiesFrom(s, e + Len(NL) + Len(FENCE))

C26_EveryRegionPaired ==
    \A i \in 1..Len(Produced) :
        re_findall(Produced[i].content)
            = FencedBodiesFrom(Produced[i].content, 1)

(***************************************************************************)
(* C27: with verbose and without, a run is the same function of the task,  *)
(* max_rounds and the completions: the thread is the task message and the  *)
(* messages of the speakers in rotation, cut at the first message that     *)
(* satisfies the termination condition, and the returned fields are the    *)
(* extractions of that thread.  Only the console differs: it has printed   *)
(* every message of the thread with verbose and nothing without.           *)
(***************************************************************************)
\* whether the k-th message of the thread ends a first run
TerminatesAt(k) ==
    \/ k >= max_rounds
    \/ HasMarker(message_thread[k].content)

NeverActed(agent_name) ==
    MessagesOf(result[1].conversation_history, agent_name) = <<>>

C28_AbsentWhenAgentNeverActed ==
    pc = "returned"
        => /\ NeverActed("CodeWriter")
                 => result[1].initial_code = NoCodeFound
           /\ NeverActed("CodeReviewer")
                 => result[1].review_feedback = NoReviewFound
           /\ NeverActed("CodeOptimizer")
                 => result[1].final_code = NoCodeFound

C28_Witness ==
    /\ pc = "returned"
    /\ max_rounds = 2
    /\ Len(Produced) = 1
    /\ Produced[1].content = TextTwoBlocks
    /\ result[1].initial_code = <<"a", "\n", "\n", "b">>
    /\ result[1].review_feedback = NoReviewFound
    /\ result[1].final_code = NoCodeFound

=============================================================================
